---- MODULE Spec2Model ----
(***************************************************************************)
(* A model of the 2048 backend: the board engine (spawnTile, the           *)
(* rotations, applyMove, canMove, checkWin) and the HTTP handlers that     *)
(* sequence it over the stored game sessions.                              *)
(*                                                                         *)
(* A board is a function [0..3 -> [0..3 -> Nat]] indexed like the Go       *)
(* array [4][4]int: board[r][c], row r from the top, column c from the     *)
(* left; 0 is an empty cell.                                               *)
(***************************************************************************)
EXTENDS Integers, Sequences, FiniteSets, TLC

(***************************************************************************)
(* Program constants and bounds.                                           *)
(***************************************************************************)
\* The side of the board: Board [4][4]int.
N == 4

\* How many engine calls one behaviour of SpecEngine makes.
MaxCalls == 2

\* How many move requests one behaviour of Spec serves.
MaxRequests == 2

\* rand.Intn(10000) of generateID, cut down to 0 .. MaxRand - 1.
MaxRand == 2

Idx == 0 .. (N - 1)

Dirs == {"up", "down", "left", "right"}

EmptyBoard == [r \in Idx |-> [c \in Idx |-> 0]]

(***************************************************************************)
(* The rotations.                                                          *)
(***************************************************************************)
\* temp[c][3-r] = board[r][c], so temp[i][j] = board[3-j][i].
rotateRight(board) ==
    [i \in Idx |-> [j \in Idx |-> board[(N - 1) - j][i]]]

\* rotateLeft writing temp[c][r]: the board is transposed, not rotated.
rotateLeftTransposes(board) ==
    [i \in Idx |-> [j \in Idx |-> board[j][i]]]

\* temp[3-c][r] = board[r][c], so temp[i][j] = board[j][3-i].
rotateLeft(board) ==
    [i \in Idx |-> [j \in Idx |-> board[j][(N - 1) - i]]]

rotate180(board) == rotateRight(rotateRight(board))

(***************************************************************************)
(* applyMove.  temp is a sequence (1-indexed): the Go temp[j] is temp[j+1] *)
(* here.                                                                   *)
(***************************************************************************)
\* The loop stopping one cell short (j < 3): the last cell of the row is lost.
RECURSIVE extractLoopStopsShort(_, _, _)
extractLoopStopsShort(row, j, temp) ==
    IF j < N - 1
    THEN extractLoopStopsShort(row, j + 1, IF row[j] # 0 THEN Append(temp, row[j]) ELSE temp)
    ELSE temp

\* for j := 0; j < 4; j++ { if board[i][j] != 0 { temp = append(temp, ...) } }
RECURSIVE extractLoop(_, _, _)
extractLoop(row, j, temp) ==
    IF j < N
    THEN extractLoop(row, j + 1, IF row[j] # 0 THEN Append(temp, row[j]) ELSE temp)
    ELSE temp

\* The scan with j-- after a merge: the merged tile is compared again with its
\* new right neighbour.
RECURSIVE mergeLoopRescan(_, _, _)
mergeLoopRescan(temp, j, score) ==
    IF j < Len(temp) - 1
    THEN IF temp[j + 1] = temp[j + 2]
         THEN LET doubled == [temp EXCEPT ![j + 1] = 2 * @]
              IN  mergeLoopRescan(SubSeq(doubled, 1, j + 1) \o SubSeq(doubled, j + 3, Len(doubled)),
                                  j, score + doubled[j + 1])
         ELSE mergeLoopRescan(temp, j + 1, score)
    ELSE [temp |-> temp, score |-> score]

\* The scan adding the value of one merged tile (before doubling) to the score.
RECURSIVE mergeLoopHalfScore(_, _, _)
mergeLoopHalfScore(temp, j, score) ==
    IF j < Len(temp) - 1
    THEN IF temp[j + 1] = temp[j + 2]
         THEN LET doubled == [temp EXCEPT ![j + 1] = 2 * @]
              IN  mergeLoopHalfScore(SubSeq(doubled, 1, j + 1) \o SubSeq(doubled, j + 3, Len(doubled)),
                                     j + 1, score + temp[j + 1])
         ELSE mergeLoopHalfScore(temp, j + 1, score)
    ELSE [temp |-> temp, score |-> score]

\* The scan that doubles the left tile but forgets to remove the right one.
RECURSIVE mergeLoopKeepsPair(_, _, _)
mergeLoopKeepsPair(temp, j, score) ==
    IF j < Len(temp) - 1
    THEN IF temp[j + 1] = temp[j + 2]
         THEN LET doubled == [temp EXCEPT ![j + 1] = 2 * @]
              IN  mergeLoopKeepsPair(doubled, j + 1, score + doubled[j + 1])
         ELSE mergeLoopKeepsPair(temp, j + 1, score)
    ELSE [temp |-> temp, score |-> score]

\* The scan without the test temp[j] == temp[j+1]: any two neighbours merge
\* into their sum.
RECURSIVE mergeLoopAnyPair(_, _, _)
mergeLoopAnyPair(temp, j, score) ==
    IF j < Len(temp) - 1
    THEN LET summed == [temp EXCEPT ![j + 1] = @ + temp[j + 2]]
         IN  mergeLoopAnyPair(SubSeq(summed, 1, j + 1) \o SubSeq(summed, j + 3, Len(summed)),
                              j + 1, score + summed[j + 1])
    ELSE [temp |-> temp, score |-> score]

\* The scan with game.Score = temp[j] in place of game.Score += temp[j].
RECURSIVE mergeLoopSetsScore(_, _, _)
mergeLoopSetsScore(temp, j, score) ==
    IF j < Len(temp) - 1
    THEN IF temp[j + 1] = temp[j + 2]
         THEN LET doubled == [temp EXCEPT ![j + 1] = 2 * @]
              IN  mergeLoopSetsScore(SubSeq(doubled, 1, j + 1) \o SubSeq(doubled, j + 3, Len(doubled)),
                                     j + 1, doubled[j + 1])
         ELSE mergeLoopSetsScore(temp, j + 1, score)
    ELSE [temp |-> temp, score |-> score]

\* for j := 0; j < len(temp)-1; j++ {
\*     if temp[j] == temp[j+1] {
\*         temp[j] *= 2; game.Score += temp[j]
\*         temp = append(temp[:j+1], temp[j+2:]...) } }
\* len(temp) is read again at every test of the loop.
RECURSIVE mergeLoop(_, _, _)
mergeLoop(temp, j, score) ==
    IF j < Len(temp) - 1
    THEN IF temp[j + 1] = temp[j + 2]
         THEN LET doubled == [temp EXCEPT ![j + 1] = 2 * @]
              IN  mergeLoop(SubSeq(doubled, 1, j + 1) \o SubSeq(doubled, j + 3, Len(doubled)),
                            j + 1, score + doubled[j + 1])
         ELSE mergeLoop(temp, j + 1, score)
    ELSE [temp |-> temp, score |-> score]

\* for len(temp) < 4 { temp = append(temp, 0) }
RECURSIVE padLoop(_)
padLoop(temp) == IF Len(temp) < N THEN padLoop(Append(temp, 0)) ELSE temp

\* The comparison of the last loop looking at the first cell of the row only.
rowChangedFirstCell(row, temp) == row[0] # temp[1]

\* for j := 0; j < 4; j++ { if board[i][j] != temp[j] { moved = true } ... }
rowChanged(row, temp) == \E j \in Idx : row[j] # temp[j + 1]

\* The body of the loop over the rows (lines 84-107), from row i on: the board,
\* the score and moved as the loop leaves them.
RECURSIVE rowLoop(_, _, _, _)
rowLoop(board, i, score, moved) ==
    IF i < N
    THEN LET merged == mergeLoop(extractLoop(board[i], 0, << >>), 0, score)
             temp   == padLoop(merged.temp)
         IN  rowLoop([board EXCEPT ![i] = [j \in Idx |-> temp[j + 1]]],
                     i + 1, merged.score,
                     moved \/ rowChanged(board[i], temp))
    ELSE [board |-> board, score |-> score, moved |-> moved]

\* The first switch with the rotations of up and down exchanged.
rotateInSwapped(board, d) ==
    CASE d = "up"    -> rotateRight(board)
      [] d = "down"  -> rotateLeft(board)
      [] d = "right" -> rotate180(board)
      [] OTHER       -> board

\* switch dir { case "up": rotateLeft; case "down": rotateRight;
\*              case "right": rotate180 }   ("left": no case, no rotation)
rotateIn(board, d) ==
    CASE d = "up"    -> rotateLeft(board)
      [] d = "down"  -> rotateRight(board)
      [] d = "right" -> rotate180(board)
      [] OTHER       -> board

\* The second switch with the first one's rotations: up and down are rotated
\* the same way again instead of back.
rotateOutSameWay(board, d) ==
    CASE d = "up"    -> rotateLeft(board)
      [] d = "down"  -> rotateRight(board)
      [] d = "right" -> rotate180(board)
      [] OTHER       -> board

\* switch dir { case "up": rotateRight; case "down": rotateLeft;
\*              case "right": rotate180 }
rotateOut(board, d) ==
    CASE d = "up"    -> rotateRight(board)
      [] d = "down"  -> rotateLeft(board)
      [] d = "right" -> rotate180(board)
      [] OTHER       -> board

\* applyMove starting the game state over: won is cleared with every move.
applyMoveClearsWon(g, d) ==
    LET done == rowLoop(rotateIn(g.board, d), 0, g.score, FALSE)
    IN  [game  |-> [g EXCEPT !.board = rotateOut(done.board, d),
                             !.score = done.score,
                             !.won = FALSE],
         moved |-> done.moved]

\* applyMove(game, dir): the game as the call leaves it and the value returned.
applyMove(g, d) ==
    LET done == rowLoop(rotateIn(g.board, d), 0, g.score, FALSE)
    IN  [game  |-> [g EXCEPT !.board = rotateOut(done.board, d),
                             !.score = done.score],
         moved |-> done.moved]

(***************************************************************************)
(* canMove.                                                                *)
(***************************************************************************)
\* canMove with the bounds of the neighbour tests one short (r < 2, c < 2).
canMoveShortScan(g) ==
    \E r \in Idx : \E c \in Idx :
        \/ g.board[r][c] = 0
        \/ r < N - 2 /\ g.board[r][c] = g.board[r + 1][c]
        \/ c < N - 2 /\ g.board[r][c] = g.board[r][c + 1]

\* canMove without the test of the cell below: rows only.
canMoveRowsOnly(g) ==
    \E r \in Idx : \E c \in Idx :
        \/ g.board[r][c] = 0
        \/ c < N - 1 /\ g.board[r][c] = g.board[r][c + 1]

\* The two loops return true at the first cell that is empty or equals the
\* cell below it or the cell to its right, and false after the last cell.
canMove(g) ==
    \E r \in Idx : \E c \in Idx :
        \/ g.board[r][c] = 0
        \/ r < N - 1 /\ g.board[r][c] = g.board[r + 1][c]
        \/ c < N - 1 /\ g.board[r][c] = g.board[r][c + 1]

(***************************************************************************)
(* spawnTile and checkWin.                                                 *)
(***************************************************************************)
\* The value checkWin looks for.
WinTile == 2048

\* The two loops of spawnTile: the empty cells, row by row, from cell k on.
RECURSIVE emptyCells(_, _)
emptyCells(board, k) ==
    IF k = N * N THEN << >>
    ELSE (IF board[k \div N][k % N] = 0 THEN << <<k \div N, k % N>> >> ELSE << >>)
         \o emptyCells(board, k + 1)

\* spawnTile returning before it places a tile.
spawnTileNever(g, n, four) == g

\* spawnTile drawing among all the cells, not among the empty ones.
spawnTileAnyCell(g, n, four) ==
    [g EXCEPT !.board[n \div N][n % N] = IF four THEN 4 ELSE 2]

\* spawnTile(game) when rand.Intn(len(empty)) draws n and rand.Float64() < 0.1
\* is four: nothing on a full board, else val (2, or 4 when four) at empty[n].
spawnTile(g, n, four) ==
    LET empty == emptyCells(g.board, 0)
    IN  IF Len(empty) = 0 THEN g
        ELSE LET pos == empty[n + 1]
             IN  [g EXCEPT !.board[pos[1]][pos[2]] = IF four THEN 4 ELSE 2]

\* What rand.Intn(len(empty)) can return (one value stands for the draw that is
\* not made on a full board).
Draws(g) ==
    LET n == Len(emptyCells(g.board, 0)) IN IF n = 0 THEN {0} ELSE 0 .. (n - 1)

\* checkWin(game)
checkWin(g) ==
    IF g.won THEN g
    ELSE IF \E r \in Idx : \E c \in Idx : g.board[r][c] = WinTile
         THEN [g EXCEPT !.won = TRUE]
         ELSE g

(***************************************************************************)
(* moveHandler.                                                            *)
(***************************************************************************)
\* validDirections
validDirections == {"up", "down", "left", "right"}

\* The handler testing canMove before the spawn instead of after it.
afterMoveChecksBeforeSpawn(g, n, four) ==
    LET won == checkWin(g)
    IN  IF ~canMove(won) THEN [spawnTile(won, n, four) EXCEPT !.gameOver = TRUE]
        ELSE spawnTile(won, n, four)

\* The handler without its spawnTile call.
afterMoveNoSpawn(g, n, four) ==
    LET won == checkWin(g)
    IN  IF ~canMove(won) THEN [won EXCEPT !.gameOver = TRUE] ELSE won

\* The handler without its canMove test: gameOver is never set.
afterMoveNeverOver(g, n, four) == checkWin(spawnTile(g, n, four))

\* Lines 84-88, run when applyMove returned true:
\*   spawnTile(game); checkWin(game); if !canMove(game) { game.GameOver = true }
afterMove(g, n, four) ==
    LET won == checkWin(spawnTile(g, n, four))
    IN  IF ~canMove(won) THEN [won EXCEPT !.gameOver = TRUE] ELSE won

\* The handler spawning a tile whether or not applyMove returned true.
moveResultsAlwaysSpawns(g, d) ==
    LET m == applyMove(g, d)
    IN  {[game |-> afterMove(m.game, n, four), moved |-> m.moved] :
             n \in Draws(m.game), four \in BOOLEAN}

\* Lines 82-88 on the loaded game: the handler's game and moved after them, for
\* every draw of the random source.
moveResults(g, d) ==
    LET m == applyMove(g, d)
    IN  IF m.moved
        THEN {[game |-> afterMove(m.game, n, four), moved |-> TRUE] :
                  n \in Draws(m.game), four \in BOOLEAN}
        ELSE {[game |-> m.game, moved |-> FALSE]}

\* The nil *GameState of a handler that loaded no game.
NoGame ==
    [id |-> << >>, board |-> EmptyBoard, score |-> 0,
     gameOver |-> FALSE, won |-> FALSE, createdAt |-> 0]

\* The handler turning away a game that is won as well as one that is over.
rejectsWon(g) == g.gameOver \/ g.won

\* if game.GameOver { http.Error(w, "Game over", 400); return }
rejects(g) == g.gameOver

\* The handler with its saveGameSession call after the if moved block: the
\* game is saved whether or not the board changed.
moveSavedAlways(table, g, d) ==
    {[table  |-> IF saveOk THEN [table EXCEPT ![g.id] = res.game] ELSE table,
      game   |-> res.game,
      pre    |-> g,
      ret    |-> res.moved,
      saved  |-> TRUE,
      status |-> IF ~saveOk THEN 500 ELSE 200] :
        res \in moveResults(g, d), saveOk \in BOOLEAN}

\* The handler going on to the response when saveGameSession returns an
\* error: it answers 200 with the new state, which is not stored.
moveSavedIgnoresError(table, g, d) ==
    {[table  |-> IF res.moved /\ saveOk THEN [table EXCEPT ![g.id] = res.game] ELSE table,
      game   |-> res.game,
      pre    |-> g,
      ret    |-> res.moved,
      saved  |-> res.moved,
      status |-> 200] :
        res \in moveResults(g, d), saveOk \in BOOLEAN}

\* Lines 82-101 on the loaded game g: what the handler leaves behind, by the
\* draws of the random source and by whether saveGameSession succeeds.
\*   table   the sessions table after the request
\*   saved   whether saveGameSession was called (it is inside if moved)
\*   status  200, or 500 when the save failed
moveSaved(table, g, d) ==
    {[table  |-> IF res.moved /\ saveOk THEN [table EXCEPT ![g.id] = res.game] ELSE table,
      game   |-> res.game,
      pre    |-> g,
      ret    |-> res.moved,
      saved  |-> res.moved,
      status |-> IF res.moved /\ ~saveOk THEN 500 ELSE 200] :
        res \in moveResults(g, d), saveOk \in BOOLEAN}

\* A response that is an error sent before any engine call.
moveError(table, g, code) ==
    [table |-> table, game |-> g, pre |-> g, ret |-> FALSE, saved |-> FALSE,
     status |-> code]

\* The handler without the validDirections test: applyMove is called with the
\* direction as sent, and its switches rotate for "up", "down" and "right"
\* only.
moveHandlerNoDirectionTest(table, id, d) ==
    IF id \notin DOMAIN table THEN {moveError(table, NoGame, 404)}
    ELSE {moveError(table, NoGame, 404)}
         \cup (IF rejects(table[id]) THEN {moveError(table, table[id], 400)}
               ELSE moveSaved(table, table[id], d))

\* moveHandler on the request {id, direction}: every outcome of lines 60-101.
\* loadGameSession fails for an id that is not in the table, and may fail for
\* one that is (a GetItem error): both answer 404.
moveHandler(table, id, d) ==
    IF d \notin validDirections THEN {moveError(table, NoGame, 400)}
    ELSE IF id \notin DOMAIN table THEN {moveError(table, NoGame, 404)}
    ELSE {moveError(table, NoGame, 404)}
         \cup (IF rejects(table[id]) THEN {moveError(table, table[id], 400)}
               ELSE moveSaved(table, table[id], d))

(***************************************************************************)
(* The state.                                                              *)
(*   game    the GameState the last call or handler worked on, as it left  *)
(*           it (the handler's *GameState, the body of its response)       *)
(*   pre     the same GameState before that call (as loaded, for a         *)
(*           handler)                                                      *)
(*   op      the last call or request; "init" before the first             *)
(*   dir     its direction, "none" when it has none                        *)
(*   ret     what it returned: moved for applyMove and for a move request, *)
(*           the result of canMove                                         *)
(*   prev    op, dir and ret of the call before the last, and the score    *)
(*           that call started from                                        *)
(*   calls   how many calls or requests were made                          *)
(*   store   the game sessions table: id -> GameState                      *)
(*   status  the HTTP status of the last response, 0 before the first      *)
(*   inflight  for each handler goroutine that serves a move request: where *)
(*           it is ("idle" before the request, "loaded" between its        *)
(*           loadGameSession and its applyMove, "done" after the           *)
(*           response), the game it loaded and the direction asked         *)
(*   rid     the game id the last request named (the id generated, for a   *)
(*           new-game request), << >> before the first                     *)
(*   saved   whether the last request called saveGameSession               *)
(*   before  the game sessions table as the last request found it          *)
(*   lb      the leaderboard: globalLeaderboard, its storage, and the      *)
(*           goroutines at work on it (see SpecBoard and SpecLock)         *)
(***************************************************************************)
VARIABLES game, pre, op, dir, ret, prev, calls, store, status, inflight,
          rid, saved, before, lb

vars == <<game, pre, op, dir, ret, prev, calls, store, status, inflight,
          rid, saved, before, lb>>

\* globalLeaderboard as declared: entries: make([]LeaderboardEntry, 0).
NoBoard == [entries |-> << >>]

(***************************************************************************)
(* The boards the specifications start from.                               *)
(***************************************************************************)
RECURSIVE Log2(_)
Log2(v) == IF v <= 1 THEN 0 ELSE 1 + Log2(v \div 2)

\* The score of a game that reached the board from tiles spawned as 2: a tile
\* 2^k was built by merges worth (k-1) * 2^k.
RECURSIVE ScoreFrom(_, _)
ScoreFrom(board, k) ==
    IF k = N * N THEN 0
    ELSE LET v == board[k \div N][k % N]
         IN  (IF v = 0 THEN 0 ELSE v * (Log2(v) - 1)) + ScoreFrom(board, k + 1)

\* A GameState (lines 9-16) holding the board; every engine call the handlers
\* make finds gameOver false.
GameOf(board, id, over) ==
    [id |-> id, board |-> board, score |-> ScoreFrom(board, 0),
     gameOver |-> over, won |-> FALSE, createdAt |-> id[1]]

\* Boards with one row or one column filled from LineVals, the rest empty.
LineVals == {0, 2, 4, 8}

LineBoards ==
    {[EmptyBoard EXCEPT ![r] = [c \in Idx |-> s[c]]] : r \in Idx, s \in [Idx -> LineVals]}
    \cup
    {[i \in Idx |-> [j \in Idx |-> IF j = c THEN s[i] ELSE 0]] : c \in Idx, s \in [Idx -> LineVals]}

\* Boards whose rows are all taken from a few rows with merges and gaps.
PatRows ==
    { <<0, 0, 0, 0>>, <<2, 2, 4, 0>>, <<0, 2, 0, 2>>, <<4, 2, 2, 2>>, <<2, 2, 2, 2>> }

PatBoards ==
    {[r \in Idx |-> [c \in Idx |-> rows[r][c + 1]]] : rows \in [Idx -> PatRows]}

\* Boards of at most two tiles, each 2 or 4: the zero value of GameState, and
\* the boards of the first moves of a game.
SparseBoards ==
    {[[EmptyBoard EXCEPT ![p[1]][p[2]] = v] EXCEPT ![q[1]][q[2]] = w] :
        p \in Idx \X Idx, q \in Idx \X Idx, v \in {0, 2, 4}, w \in {0, 2, 4}}

\* A full board with no two equal neighbours, and the boards that differ from
\* it in one cell.
DeadBase ==
    [r \in Idx |-> [c \in Idx |->
        IF r % 2 = 0 THEN (IF c % 2 = 0 THEN 2 ELSE 8)
                     ELSE (IF c % 2 = 0 THEN 16 ELSE 32)]]

AlterVals == {0, 2, 8, 16}

DenseBoards ==
    {[DeadBase EXCEPT ![r][c] = v] : r \in Idx, c \in Idx, v \in AlterVals \cup {32}}

\* Boards at the end of a long game: DeadBase with two neighbouring cells of
\* the first row and column holding half the winning value, the winning value
\* or its double, and the last cell empty or not.
TopVals == {WinTile \div 2, WinTile, 2 * WinTile}

WinBoards ==
    {[[[DeadBase EXCEPT ![0][0] = v] EXCEPT ![p[1]][p[2]] = w] EXCEPT ![N - 1][N - 1] = z] :
        v \in TopVals, w \in TopVals, p \in {<<0, 1>>, <<1, 0>>},
        z \in {0, DeadBase[N - 1][N - 1]}}

EngineBoards == LineBoards \cup PatBoards \cup SparseBoards \cup DenseBoards

(***************************************************************************)
(* SpecEngine: the engine's functions called on a GameState.               *)
(***************************************************************************)
\* The goroutines net/http runs moveHandler in, one per request in flight.
Handlers == {"h1", "h2"}

Idle == [phase |-> "idle", game |-> NoGame, dir |-> "none"]

Done == [phase |-> "done", game |-> NoGame, dir |-> "none"]

NoCall == [op |-> "init", dir |-> "none", ret |-> FALSE, score |-> 0]

InitEngine ==
    /\ game \in {GameOf(b, <<0, 0>>, FALSE) : b \in EngineBoards}
    /\ pre = game
    /\ op = "init"
    /\ dir = "none"
    /\ ret = FALSE
    /\ prev = NoCall
    /\ calls = 0
    /\ store = << >>
    /\ status = 0
    /\ inflight = [h \in Handlers |-> Idle]
    /\ rid = << >>
    /\ saved = FALSE
    /\ before = store
    /\ lb = NoBoard

Called(o, d, r) ==
    /\ calls < MaxCalls
    /\ calls' = calls + 1
    /\ pre' = game
    /\ op' = o
    /\ dir' = d
    /\ ret' = r
    /\ prev' = [op |-> op, dir |-> dir, ret |-> ret, score |-> pre.score]
    /\ UNCHANGED <<store, status, inflight, rid, saved, before, lb>>

\* moved := applyMove(game, d)
CallApplyMove(d) ==
    /\ game' = applyMove(game, d).game
    /\ Called("applyMove", d, applyMove(game, d).moved)

\* canMove(game)
CallCanMove ==
    /\ game' = game
    /\ Called("canMove", "none", canMove(game))

NextEngine ==
    \/ \E d \in Dirs : CallApplyMove(d)
    \/ CallCanMove

SpecEngine == InitEngine /\ [][NextEngine]_vars

(***************************************************************************)
(* Spec: move requests served one at a time on a stored game session.      *)
(***************************************************************************)
\* generateID: the time to the second, then rand.Intn(10000) in decimal.  The
\* time part has a fixed width, so two ids are equal exactly when both parts
\* are: the id is the pair.
generateID(t, r) == <<t, r>>

\* The ids a request can name: those generated in second 0.
Ids == {generateID(0, r) : r \in 0 .. (MaxRand - 1)}

\* The directions a request can carry: the valid ones and others.
ReqDirs == validDirections \cup {"Left", ""}

\* The boards of the stored session: a few moves from the end of a game.
StoredBoards == DenseBoards \cup WinBoards

\* A sessions table holding one game, saved as the handler leaves it: gameOver
\* true exactly when canMove was false on the saved board, won true exactly
\* when the winning tile was made (tiles never shrink, so it or a higher one
\* is on the board).
StoredGame(b) ==
    LET g == GameOf(b, generateID(0, 0), FALSE)
    IN  [g EXCEPT !.gameOver = ~canMove(g),
                  !.won = \E r \in Idx : \E c \in Idx : b[r][c] >= WinTile]

InitStores == {(generateID(0, 0) :> StoredGame(b)) : b \in StoredBoards}

Init ==
    /\ store \in InitStores
    /\ game = NoGame
    /\ pre = NoGame
    /\ op = "init"
    /\ dir = "none"
    /\ ret = FALSE
    /\ prev = NoCall
    /\ calls = 0
    /\ status = 0
    /\ inflight = [h \in Handlers |-> Idle]
    /\ rid = << >>
    /\ saved = FALSE
    /\ before = store
    /\ lb = NoBoard

\* One move request, from the decoded body to the response.
MoveServed(id, d) ==
    /\ \E out \in moveHandler(store, id, d) :
          /\ store' = out.table
          /\ game' = out.game
          /\ pre' = out.pre
          /\ ret' = out.ret
          /\ status' = out.status
          /\ saved' = out.saved
    /\ op' = "move"
    /\ dir' = d
    /\ rid' = id
    /\ before' = store
    /\ prev' = [op |-> op, dir |-> dir, ret |-> ret, score |-> pre.score]
    /\ calls' = calls + 1
    /\ UNCHANGED <<inflight, lb>>

MoveRequest(id, d) ==
    /\ calls < MaxRequests
    /\ MoveServed(id, d)

Next == \E id \in Ids : \E d \in ReqDirs : MoveRequest(id, d)

Spec == Init /\ [][Next]_vars

(***************************************************************************)
(* SpecEnd: a stored game played on, one move request after another, for   *)
(* as long as requests come.  The requests are not counted: only the game  *)
(* itself can bring the play to an end.                                    *)
(***************************************************************************)
\* A full board late in a game: sixteen different tiles, from 16 up.
LateBase == [r \in Idx |-> [c \in Idx |-> 2 ^ (N * r + c + 4)]]

\* The cells that are empty in the stored boards: two of these.
LateHoles == {<<0, 0>>, <<0, 1>>, <<1, 1>>, <<1, 2>>, <<3, 3>>}

\* LateBase with two cells empty.
LateBoards ==
    {[[LateBase EXCEPT ![h[1][1]][h[1][2]] = 0] EXCEPT ![h[2][1]][h[2][2]] = 0] :
        h \in {x \in LateHoles \X LateHoles : x[1] # x[2]}}

InitEnd ==
    /\ store \in {(generateID(0, 0) :> StoredGame(b)) : b \in LateBoards}
    /\ game = NoGame
    /\ pre = NoGame
    /\ op = "init"
    /\ dir = "none"
    /\ ret = FALSE
    /\ prev = NoCall
    /\ calls = 0
    /\ status = 0
    /\ inflight = [h \in Handlers |-> Idle]
    /\ rid = << >>
    /\ saved = FALSE
    /\ before = store
    /\ lb = NoBoard

\* POST /game/move {id, direction}, served to its end.
PlayMove(id, d) ==
    /\ \E out \in moveHandler(store, id, d) :
          /\ store' = out.table
          /\ game' = out.game
          /\ pre' = out.pre
          /\ ret' = out.ret
          /\ status' = out.status
          /\ saved' = out.saved
    /\ op' = "move"
    /\ dir' = d
    /\ rid' = id
    /\ before' = store
    /\ prev' = [op |-> op, dir |-> dir, ret |-> ret, score |-> pre.score]
    /\ UNCHANGED <<calls, inflight, lb>>

NextEnd == \E id \in DOMAIN store : \E d \in validDirections : PlayMove(id, d)

SpecEnd == InitEnd /\ [][NextEnd]_vars

(***************************************************************************)
(* SpecConc: two move requests served by two goroutines at once.  A        *)
(* handler reads the table once (GetItem in loadGameSession) and writes it *)
(* once (PutItem in saveGameSession); what it does in between is local to  *)
(* it, so it takes two steps.  Each handler serves one request.            *)
(***************************************************************************)
Responded(id, g, loaded, moved, put, code) ==
    /\ game' = g
    /\ pre' = loaded
    /\ ret' = moved
    /\ status' = code
    /\ rid' = id
    /\ saved' = put
    /\ before' = store
    /\ UNCHANGED lb
    /\ op' = "move"
    /\ prev' = [op |-> op, dir |-> dir, ret |-> ret, score |-> pre.score]
    /\ calls' = calls + 1

\* Lines 43-80: decode, validate, load, and answer an error or go on.
MoveLoad(h, id, d) ==
    /\ inflight[h].phase = "idle"
    /\ \/ /\ d \in validDirections
          /\ id \in DOMAIN store
          /\ ~rejects(store[id])
          /\ inflight' = [inflight EXCEPT ![h] = [phase |-> "loaded", game |-> store[id], dir |-> d]]
          /\ UNCHANGED <<game, pre, op, dir, ret, prev, calls, store, status,
                         rid, saved, before, lb>>
       \/ /\ \E out \in moveHandler(store, id, d) :
                /\ out.status \in {400, 404}
                /\ Responded(id, out.game, out.pre, out.ret, out.saved, out.status)
          /\ dir' = d
          /\ inflight' = [inflight EXCEPT ![h] = Done]
          /\ UNCHANGED store

\* Lines 82-101: applyMove, spawn, checkWin, canMove, save, respond.
MoveFinish(h) ==
    /\ inflight[h].phase = "loaded"
    /\ \E out \in moveSaved(store, inflight[h].game, inflight[h].dir) :
          /\ store' = out.table
          /\ Responded(inflight[h].game.id, out.game, out.pre, out.ret, out.saved,
                       out.status)
    /\ dir' = inflight[h].dir
    /\ inflight' = [inflight EXCEPT ![h] = Done]

NextConc ==
    \/ \E h \in Handlers : \E id \in Ids : \E d \in ReqDirs : MoveLoad(h, id, d)
    \/ \E h \in Handlers : MoveFinish(h)

SpecConc == Init /\ [][NextConc]_vars

(***************************************************************************)
(* SpecNew: a new-game request on an empty sessions table, then the first  *)
(* move request.                                                           *)
(***************************************************************************)
\* The handler's game after one spawnTile only.
newGameResultsOneSpawn(id, t) ==
    LET g0 == [id |-> id, board |-> EmptyBoard, score |-> 0,
               gameOver |-> FALSE, won |-> FALSE, createdAt |-> t]
    IN  {spawnTile(g0, n1, f1) : n1 \in Draws(g0), f1 \in BOOLEAN}

\* Lines 23-29 of newGameHandler: &GameState{ID: id, CreatedAt: now}, the
\* other fields at their zero values, then spawnTile twice, for every draw of
\* the random source.
newGameResults(id, t) ==
    LET g0 == [id |-> id, board |-> EmptyBoard, score |-> 0,
               gameOver |-> FALSE, won |-> FALSE, createdAt |-> t]
    IN  UNION {{spawnTile(spawnTile(g0, n1, f1), n2, f2) :
                    n2 \in Draws(spawnTile(g0, n1, f1)), f2 \in BOOLEAN} :
               n1 \in Draws(g0), f1 \in BOOLEAN}

\* The same lines when both spawnTile calls draw the first empty cell.
newGameResultsFirstCells(id, t) ==
    LET g0 == [id |-> id, board |-> EmptyBoard, score |-> 0,
               gameOver |-> FALSE, won |-> FALSE, createdAt |-> t]
    IN  {spawnTile(spawnTile(g0, 0, f1), 0, f2) : f1 \in BOOLEAN, f2 \in BOOLEAN}

\* PutItem on the sessions table: the item of the game's id is written,
\* whether or not the table had one.
putItem(table, g) ==
    [x \in DOMAIN table \cup {g.id} |-> IF x = g.id THEN g ELSE table[x]]

\* newGameHandler at second t when rand.Intn(10000) draws r: every outcome of
\* lines 23-40.  A failed save answers 500 and leaves the table alone.
newGameHandler(table, t, r) ==
    {[table  |-> IF saveOk THEN putItem(table, g) ELSE table,
      game   |-> g,
      pre    |-> NoGame,
      ret    |-> FALSE,
      saved  |-> TRUE,
      status |-> IF saveOk THEN 200 ELSE 500] :
        g \in newGameResults(generateID(t, r), t), saveOk \in BOOLEAN}

\* newGameHandler with the spawn draws of newGameResultsFirstCells.
newGameHandlerFirstCells(table, t, r) ==
    {[table  |-> IF saveOk THEN putItem(table, g) ELSE table,
      game   |-> g,
      pre    |-> NoGame,
      ret    |-> FALSE,
      saved  |-> TRUE,
      status |-> IF saveOk THEN 200 ELSE 500] :
        g \in newGameResultsFirstCells(generateID(t, r), t), saveOk \in BOOLEAN}

InitNew ==
    /\ store = << >>
    /\ game = NoGame
    /\ pre = NoGame
    /\ op = "init"
    /\ dir = "none"
    /\ ret = FALSE
    /\ prev = NoCall
    /\ calls = 0
    /\ status = 0
    /\ inflight = [h \in Handlers |-> Idle]
    /\ rid = << >>
    /\ saved = FALSE
    /\ before = store
    /\ lb = NoBoard

\* One new-game request, from the method check to the response.
NewGameRequest(t, r) ==
    /\ op = "init"
    /\ \E out \in newGameHandler(store, t, r) :
          /\ store' = out.table
          /\ game' = out.game
          /\ pre' = out.pre
          /\ ret' = out.ret
          /\ status' = out.status
          /\ saved' = out.saved
    /\ op' = "newGame"
    /\ dir' = "none"
    /\ rid' = generateID(t, r)
    /\ before' = store
    /\ prev' = [op |-> op, dir |-> dir, ret |-> ret, score |-> pre.score]
    /\ calls' = calls + 1
    /\ UNCHANGED <<inflight, lb>>

\* The move request that follows the new-game request.
FirstMoveRequest(id, d) ==
    /\ op = "newGame"
    /\ MoveServed(id, d)

NextNew ==
    \/ \E r \in 0 .. (MaxRand - 1) : NewGameRequest(0, r)
    \/ \E id \in Ids : \E d \in ReqDirs : FirstMoveRequest(id, d)

SpecNew == InitNew /\ [][NextNew]_vars

(***************************************************************************)
(* SpecIds: new-game requests one after the other, in the same second or   *)
(* in the next one.                                                        *)
(***************************************************************************)
\* The seconds time.Now() falls in: that of the first request and the next.
Seconds == {0, 1}

\* One more new-game request, at a time not before the last one's.
NewGameAgain(t, r) ==
    /\ calls < MaxRequests
    /\ t >= game.createdAt
    /\ \E out \in newGameHandlerFirstCells(store, t, r) :
          /\ store' = out.table
          /\ game' = out.game
          /\ pre' = out.pre
          /\ ret' = out.ret
          /\ status' = out.status
          /\ saved' = out.saved
    /\ op' = "newGame"
    /\ dir' = "none"
    /\ rid' = generateID(t, r)
    /\ before' = store
    /\ prev' = [op |-> op, dir |-> dir, ret |-> ret, score |-> pre.score]
    /\ calls' = calls + 1
    /\ UNCHANGED <<inflight, lb>>

NextIds == \E t \in Seconds : \E r \in 0 .. (MaxRand - 1) : NewGameAgain(t, r)

SpecIds == InitNew /\ [][NextIds]_vars

(***************************************************************************)
(* SpecSpawn: spawnTile called on a GameState, again and again.            *)
(***************************************************************************)
\* DeadBase with one row or one column emptied.
HalfBoards ==
    {[r \in Idx |-> [c \in Idx |-> IF r = k THEN 0 ELSE DeadBase[r][c]]] : k \in Idx}
    \cup
    {[r \in Idx |-> [c \in Idx |-> IF c = k THEN 0 ELSE DeadBase[r][c]]] : k \in Idx}

\* The boards spawnTile is called on: the empty board of a new game, boards
\* with some empty cells, boards with one empty cell and full boards.
SpawnBoards == {EmptyBoard} \cup HalfBoards \cup DenseBoards \cup WinBoards

InitSpawn ==
    /\ game \in {StoredGame(b) : b \in SpawnBoards}
    /\ pre = game
    /\ op = "init"
    /\ dir = "none"
    /\ ret = FALSE
    /\ prev = NoCall
    /\ calls = 0
    /\ store = << >>
    /\ status = 0
    /\ inflight = [h \in Handlers |-> Idle]
    /\ rid = << >>
    /\ saved = FALSE
    /\ before = store
    /\ lb = NoBoard

\* spawnTile(game), which returns nothing.
CallSpawnTile(n, four) ==
    /\ game' = spawnTile(game, n, four)
    /\ Called("spawnTile", "none", FALSE)

NextSpawn == \E n \in Draws(game) : \E four \in BOOLEAN : CallSpawnTile(n, four)

SpecSpawn == InitSpawn /\ [][NextSpawn]_vars

(***************************************************************************)
(* SpecRotate: calls of the three rotations on a board, MaxCalls of them.  *)
(***************************************************************************)
\* rotateRight(&game.Board)
CallRotateRight ==
    /\ game' = [game EXCEPT !.board = rotateRight(@)]
    /\ Called("rotateRight", "none", FALSE)

\* rotateLeft(&game.Board)
CallRotateLeft ==
    /\ game' = [game EXCEPT !.board = rotateLeft(@)]
    /\ Called("rotateLeft", "none", FALSE)

\* rotate180(&game.Board)
CallRotate180 ==
    /\ game' = [game EXCEPT !.board = rotate180(@)]
    /\ Called("rotate180", "none", FALSE)

NextRotate ==
    \/ CallRotateRight
    \/ CallRotateLeft
    \/ CallRotate180

SpecRotate == InitEngine /\ [][NextRotate]_vars

(***************************************************************************)
(* SpecFrame: applyMove, canMove and checkWin called on the games the      *)
(* handlers call them on (gameOver false; won or not), MaxCalls calls.     *)
(***************************************************************************)
InitFrame ==
    /\ InitSpawn
    /\ ~game.gameOver

\* checkWin(game), which returns nothing.
CallCheckWin ==
    /\ game' = checkWin(game)
    /\ Called("checkWin", "none", FALSE)

NextFrame ==
    \/ \E d \in Dirs : CallApplyMove(d)
    \/ CallCanMove
    \/ CallCheckWin

SpecFrame == InitFrame /\ [][NextFrame]_vars

(***************************************************************************)
(* The leaderboard.  A LeaderboardEntry is a record                        *)
(*   [id, playerId, name, score, timestamp, duration, moves]               *)
(* with id << >> for the empty string and timestamp 0 for the zero time;   *)
(* time is counted in ticks, TicksPerSecond to the second.                 *)
(***************************************************************************)
\* How many entries AddScore keeps: 1000 in the code, cut down.
MaxEntries == 2

\* How many leaderboard requests one behaviour of SpecBoard serves.
MaxScores == 3

\* time.RFC3339 keeps the time to the second.
TicksPerSecond == 2

\* The sequences that hold the elements of the sequence q in some order.
Orders(q) ==
    {[i \in 1 .. Len(q) |-> q[f[i]]] :
        f \in {g \in [1 .. Len(q) -> 1 .. Len(q)] :
                  \A i \in 1 .. Len(q) : \A j \in 1 .. Len(q) : g[i] = g[j] => i = j}}

\* The less function of sortEntries: higher score first, and for equal scores
\* the earlier timestamp first.
less(a, b) ==
    IF a.score = b.score THEN a.timestamp < b.timestamp ELSE a.score > b.score

\* sortEntries: sort.Slice(l.entries, less).  The sort is not stable, so the
\* entries that less does not order come out in any order.
sortEntries(entries) ==
    {q \in Orders(entries) :
        \A i \in 1 .. Len(q) : \A j \in 1 .. Len(q) : i < j => ~less(q[j], q[i])}

\* AddScore without the sort before the cut: the newest entries are dropped.
AddScoreCutsUnsorted(entries, entry, t, r) ==
    LET withId == IF entry.id = << >> THEN [entry EXCEPT !.id = generateID(t \div TicksPerSecond, r)]
                  ELSE entry
        stamped == IF withId.timestamp = 0 THEN [withId EXCEPT !.timestamp = t] ELSE withId
        all     == Append(entries, stamped)
    IN  {[entries |-> IF Len(all) > MaxEntries THEN SubSeq(all, 1, MaxEntries) ELSE all,
          added |-> stamped]}

\* AddScore(entry) at tick t when rand.Intn(10000) draws r (lines 31-51): the
\* entries it leaves and the entry as it appended it.
AddScore(entries, entry, t, r) ==
    LET withId == IF entry.id = << >> THEN [entry EXCEPT !.id = generateID(t \div TicksPerSecond, r)]
                  ELSE entry
        stamped == IF withId.timestamp = 0 THEN [withId EXCEPT !.timestamp = t] ELSE withId
        all     == Append(entries, stamped)
    IN  IF Len(all) > MaxEntries
        THEN {[entries |-> SubSeq(q, 1, MaxEntries), added |-> stamped] : q \in sortEntries(all)}
        ELSE {[entries |-> all, added |-> stamped]}

\* GetTopScores returning the last limit entries of the sorted slice.
GetTopScoresFromEnd(entries, limit) ==
    {[entries |-> q,
      result  |-> SubSeq(q, Len(q) + 1 - (IF limit > Len(q) THEN Len(q) ELSE limit), Len(q))] :
        q \in sortEntries(entries)}

\* GetTopScores(limit) (lines 60-73): the slice as the in-place sort leaves
\* it, and the copy of its first limit entries.
GetTopScores(entries, limit) ==
    {[entries |-> q,
      result  |-> SubSeq(q, 1, IF limit > Len(q) THEN Len(q) ELSE limit)] :
        q \in sortEntries(entries)}

\* The zero LeaderboardEntry.
NoEntry ==
    [id |-> << >>, playerId |-> "", name |-> "", score |-> 0, timestamp |-> 0,
     duration |-> 0, moves |-> 0]

\* The item saveToDynamoDB of storage.go puts for an entry, as
\* loadFromDynamoDB decodes it: id, name, score and the timestamp in RFC3339;
\* the other fields are not written and come back as zero values.
itemOf(e) ==
    [NoEntry EXCEPT !.id = e.id, !.name = e.name, !.score = e.score,
                    !.timestamp = e.timestamp - (e.timestamp % TicksPerSecond)]

\* PutItem for the entries from the k-th on, in order: an item replaces the
\* item with its id.
RECURSIVE putItems(_, _, _)
putItems(items, entries, k) ==
    IF k > Len(entries) THEN items
    ELSE putItems({i \in items : i.id # entries[k].id} \cup {itemOf(entries[k])},
                  entries, k + 1)

\* saveToDynamoDB.  In leaderboard.go (lines 411-415) it only logs, and
\* nothing calls saveEntryToDynamoDB; in storage.go (lines 137-182) it clears
\* the table and puts one item for each entry.  l.build says which is linked.
saveToDynamoDB(l) ==
    IF l.build = "table" THEN putItems({}, l.entries, 1) ELSE l.dynamo

\* saveToPersistentStorage (lines 135-148): DynamoDB and S3 when their clients
\* are set (initAWSClients sets both or none), then saveToJSON, which
\* marshals the entries and writes no file.
saveToPersistentStorage(l) ==
    IF l.aws THEN [l EXCEPT !.dynamo = saveToDynamoDB(l), !.s3 = l.entries, !.pending = FALSE]
    ELSE [l EXCEPT !.pending = FALSE]

\* loadFromPersistentStorage (lines 164-173) in a new process: the entries it
\* leaves.  With the DynamoDB client set it scans the table (the items come
\* in any order; a failed Scan leaves the entries empty) and S3 is not read;
\* with no client loadFromJSON reads nothing.
loadFromPersistentStorage(l) ==
    IF l.aws
    THEN {<< >>} \cup UNION {Orders(q) : q \in {x \in [1 .. Cardinality(l.dynamo) -> l.dynamo] :
                                                 \A i \in DOMAIN x : \A j \in DOMAIN x :
                                                     x[i] = x[j] => i = j}}
    ELSE {<< >>}

\* submitScoreHandler (lines 130-174) on the decoded body sub at tick t: the
\* entry is built with no id, AddScore receives a copy of it, and the
\* response encodes the handler's own entry.
submitScoreHandler(l, sub, t, r) ==
    IF sub.name = "" \/ sub.score <= 0
    THEN {[lb |-> [l EXCEPT !.resp = NoEntry, !.added = NoEntry, !.prior = l.entries],
           status |-> 400]}
    ELSE LET entry == [id |-> << >>, playerId |-> sub.playerId, name |-> sub.name,
                       score |-> sub.score, timestamp |-> t,
                       duration |-> sub.duration, moves |-> sub.moves]
         IN  {[lb |-> [l EXCEPT !.entries = o.entries, !.added = o.added, !.resp = entry,
                                !.pending = TRUE, !.prior = l.entries, !.now = t,
                                !.ever = Append(l.ever, o.added)],
               status |-> 200] : o \in AddScore(l.entries, entry, t, r)}

\* limit := 10 of leaderboardHandler.
DefaultLimit == 10

\* leaderboardHandler (lines 176-199) with the limit parameter parsed to n (0
\* for one that is missing, not a number, or not positive).
leaderboardHandler(l, n) ==
    {[lb |-> [l EXCEPT !.entries = o.entries, !.top = o.result, !.prior = l.entries],
      status |-> 200] : o \in GetTopScores(l.entries, IF n > 0 THEN n ELSE DefaultLimit)}

(***************************************************************************)
(* SpecBoard: score submissions, leaderboard queries and restarts of the   *)
(* process, one at a time; the save AddScore starts runs some time later.  *)
(***************************************************************************)
\* The bodies of the score submissions: two that are accepted, one with no
\* name and one with no score.
Submissions ==
    {[playerId |-> "p1", name |-> "Ann", score |-> 10, duration |-> 30, moves |-> 7],
     [playerId |-> "p2", name |-> "Bob", score |-> 20, duration |-> 60, moves |-> 9],
     [playerId |-> "p1", name |-> "", score |-> 10, duration |-> 30, moves |-> 7],
     [playerId |-> "p2", name |-> "Bob", score |-> 0, duration |-> 60, moves |-> 9]}

\* The leaderboard of a process that has just started on empty storage.
\*   entries  l.entries
\*   dynamo   the items of the leaderboard table, s3 the stored object
\*   pending  whether a save goroutine has been started and has not run
\*   aws      whether dynamodbClient and s3Client are set
\*   build    which saveToDynamoDB is linked
\*   resp     the entry of the last submit response, added the entry AddScore
\*            appended for it, ever all the entries AddScore appended
\*   top      the scores of the last leaderboard response, limit its parameter
\*   prior    the entries before the last request
\*   now      the tick of the last time.Now()
NewBoard(a, b) ==
    [entries |-> << >>, dynamo |-> {}, s3 |-> << >>, pending |-> FALSE,
     aws |-> a, build |-> b, resp |-> NoEntry, added |-> NoEntry, ever |-> << >>,
     top |-> << >>, prior |-> << >>, now |-> 1, limit |-> 0]

InitBoard ==
    /\ lb \in {NewBoard(a, b) : a \in BOOLEAN, b \in {"entry", "table"}}
    /\ game = NoGame
    /\ pre = NoGame
    /\ op = "init"
    /\ dir = "none"
    /\ ret = FALSE
    /\ prev = NoCall
    /\ calls = 0
    /\ store = << >>
    /\ status = 0
    /\ inflight = [h \in Handlers |-> Idle]
    /\ rid = << >>
    /\ saved = FALSE
    /\ before = store

\* What a leaderboard request leaves of the variables of the games.
BoardServed(o, code) ==
    /\ calls' = calls + 1
    /\ op' = o
    /\ status' = code
    /\ prev' = [op |-> op, dir |-> dir, ret |-> ret, score |-> pre.score]
    /\ UNCHANGED <<game, pre, dir, ret, store, inflight, rid, saved, before>>

\* POST /leaderboard/submit
SubmitScore(sub, t, r) ==
    /\ calls < MaxScores
    /\ \E out \in submitScoreHandler(lb, sub, t, r) :
          /\ lb' = out.lb
          /\ BoardServed("submit", out.status)

\* GET /leaderboard/top?limit=n
TopScores(n) ==
    /\ calls < MaxScores
    /\ \E out \in leaderboardHandler(lb, n) :
          /\ lb' = [out.lb EXCEPT !.limit = n]
          /\ BoardServed("top", out.status)

\* The goroutine of go l.saveToPersistentStorage() runs.
SaveRuns ==
    /\ lb.pending
    /\ lb' = saveToPersistentStorage(lb)
    /\ UNCHANGED <<game, pre, op, dir, ret, prev, calls, store, status, inflight,
                   rid, saved, before>>

\* The process stops and starts again: main runs initStorage and
\* initLeaderboard on a new globalLeaderboard.
Restart ==
    /\ calls < MaxScores
    /\ \E loaded \in loadFromPersistentStorage(lb) :
          lb' = [lb EXCEPT !.entries = loaded, !.pending = FALSE, !.prior = lb.entries]
    /\ BoardServed("restart", 0)

NextBoard ==
    \/ \E sub \in Submissions : \E t \in {lb.now, lb.now + 1} : \E r \in 0 .. (MaxRand - 1) :
          SubmitScore(sub, t, r)
    \/ \E n \in 0 .. (MaxEntries + 1) : TopScores(n)
    \/ SaveRuns
    \/ Restart

SpecBoard == InitBoard /\ [][NextBoard]_vars

(***************************************************************************)
(* SpecRank: score submissions and leaderboard queries, one at a time, in  *)
(* a process with no storage client.                                       *)
(***************************************************************************)
InitRank ==
    /\ InitBoard
    /\ lb = NewBoard(FALSE, "entry")

NextRank ==
    \/ \E sub \in Submissions : \E t \in {lb.now, lb.now + 1} : \E r \in 0 .. (MaxRand - 1) :
          SubmitScore(sub, t, r)
    \/ \E n \in 0 .. (MaxEntries + 1) : TopScores(n)

SpecRank == InitRank /\ [][NextRank]_vars

(***************************************************************************)
(* SpecLock: the goroutines that use the leaderboard, step by step.  Two   *)
(* request handlers call AddScore, GetTopScores, GetPlayerRank or GetStats *)
(* and the goroutines AddScore starts run saveToPersistentStorage.  lb     *)
(* holds the slice, the state of l.mu, where each goroutine is, and which  *)
(* goroutines are reading or writing the slice.                            *)
(***************************************************************************)
Goroutines == Handlers \cup {"save"}

\* The methods that take the read lock: GetTopScores, GetPlayerRank, GetStats.
Readers == {"top", "rank", "stats"}

\* The entries the handlers pass to AddScore.
LockEntries ==
    {[NoEntry EXCEPT !.playerId = "p1", !.name = "Ann", !.score = 10],
     [NoEntry EXCEPT !.playerId = "p2", !.name = "Bob", !.score = 20]}

\* The leaderboard and its goroutines when the process has started.
\*   entries  l.entries
\*   writer   the goroutine that holds l.mu locked, readers those that hold
\*            it read-locked
\*   at       where each goroutine is, kind and arg the method a handler
\*            runs and its entry
\*   acc      "read" or "write" while a goroutine reads or writes l.entries
\*   raced    whether another goroutine wrote l.entries during that access
\*   pending  how many save goroutines were started and have not run
NewLock ==
    [entries |-> << >>, writer |-> "none", readers |-> {},
     at |-> [g \in Goroutines |-> "idle"],
     kind |-> [g \in Handlers |-> "none"],
     arg |-> [g \in Handlers |-> NoEntry],
     acc |-> [g \in Goroutines |-> "none"],
     raced |-> [g \in Goroutines |-> FALSE],
     pending |-> 0, now |-> 1]

\* Goroutine g starts to read or write l.entries.
beginAccess(l, g, how) ==
    [l EXCEPT !.acc[g] = how,
              !.raced = [h \in Goroutines |->
                            IF h = g THEN \E o \in Goroutines \ {g} : l.acc[o] = "write"
                            ELSE l.raced[h] \/ (l.acc[h] # "none" /\ how = "write")]]

\* Goroutine g has finished its read or write of l.entries.
endAccess(l, g) == [l EXCEPT !.acc[g] = "none", !.raced[g] = FALSE]

\* What a write of the slice leaves when another goroutine wrote it at the
\* same time (a data race): any of the entries in every place.
Torn(entries) == [1 .. Len(entries) -> {entries[i] : i \in 1 .. Len(entries)}]

InitLock ==
    /\ lb = NewLock
    /\ game = NoGame
    /\ pre = NoGame
    /\ op = "init"
    /\ dir = "none"
    /\ ret = FALSE
    /\ prev = NoCall
    /\ calls = 0
    /\ store = << >>
    /\ status = 0
    /\ inflight = [h \in Handlers |-> Idle]
    /\ rid = << >>
    /\ saved = FALSE
    /\ before = store

\* A step of a goroutine inside a method.
LockStep(l) ==
    /\ lb' = l
    /\ UNCHANGED <<game, pre, op, dir, ret, prev, calls, store, status, inflight,
                   rid, saved, before>>

\* A handler calls the leaderboard method k (with the entry e for AddScore).
StartRequest(g, k, e) ==
    /\ calls < MaxScores
    /\ lb.at[g] = "idle"
    /\ lb' = [lb EXCEPT !.at[g] = IF k = "add" THEN "lock" ELSE "rlock",
                        !.kind[g] = k, !.arg[g] = e]
    /\ calls' = calls + 1
    /\ op' = k
    /\ UNCHANGED <<game, pre, dir, ret, prev, store, status, inflight, rid, saved, before>>

\* l.mu.Lock() of AddScore
Lock(g) ==
    /\ lb.at[g] = "lock"
    /\ lb.writer = "none" /\ lb.readers = {}
    /\ LockStep([lb EXCEPT !.writer = g, !.at[g] = "append"])

\* AddScore starts on lines 36-51: append, and sort and cut over the cap.
AppendBegin(g) ==
    /\ lb.at[g] = "append"
    /\ LockStep([beginAccess(lb, g, "write") EXCEPT !.at[g] = "appending"])

\* AddScore has finished lines 36-51.  No other goroutine writes the slice
\* meanwhile: the methods that sort it hold the read lock.
AppendEnd(g) ==
    /\ lb.at[g] = "appending"
    /\ \E o \in AddScore(lb.entries, lb.arg[g], lb.now, 0) :
          LockStep([endAccess(lb, g) EXCEPT !.entries = o.entries, !.at[g] = "go"])

\* go l.saveToPersistentStorage()
Go(g) ==
    /\ lb.at[g] = "go"
    /\ LockStep([lb EXCEPT !.pending = @ + 1, !.at[g] = "unlock"])

\* The deferred l.mu.Unlock() of AddScore
Unlock(g) ==
    /\ lb.at[g] = "unlock"
    /\ LockStep([lb EXCEPT !.writer = "none", !.at[g] = "idle"])

\* l.mu.RLock() of GetTopScores, GetPlayerRank and GetStats; GetStats returns
\* before the sort when there is no entry.
RLock(g) ==
    /\ lb.at[g] = "rlock"
    /\ lb.writer = "none"
    /\ LockStep([lb EXCEPT !.readers = @ \cup {g},
                           !.at[g] = IF lb.kind[g] = "stats" /\ Len(lb.entries) = 0
                                     THEN "runlock" ELSE "sort"])

\* l.sortEntries() starts: sort.Slice swaps the elements of l.entries.
SortBegin(g) ==
    /\ lb.at[g] = "sort"
    /\ LockStep([beginAccess(lb, g, "write") EXCEPT !.at[g] = "sorting"])

\* l.sortEntries() returns.
SortEnd(g) ==
    /\ lb.at[g] = "sorting"
    /\ \E q \in (IF lb.raced[g] THEN Torn(lb.entries) ELSE sortEntries(lb.entries)) :
          LockStep([endAccess(lb, g) EXCEPT !.entries = q, !.at[g] = "read"])

\* The method starts to read l.entries (copy, or the range loop).
ReadBegin(g) ==
    /\ lb.at[g] = "read"
    /\ LockStep([beginAccess(lb, g, "read") EXCEPT !.at[g] = "reading"])

\* The method has read l.entries.
ReadEnd(g) ==
    /\ lb.at[g] = "reading"
    /\ LockStep([endAccess(lb, g) EXCEPT !.at[g] = "runlock"])

\* The deferred l.mu.RUnlock()
RUnlock(g) ==
    /\ lb.at[g] = "runlock"
    /\ LockStep([lb EXCEPT !.readers = @ \ {g}, !.at[g] = "idle"])

\* A save goroutine starts saveToPersistentStorage: it reads l.entries
\* (saveToJSON marshals them) and takes no lock.
SaveBegin ==
    /\ lb.pending > 0
    /\ lb.at["save"] = "idle"
    /\ LockStep([beginAccess(lb, "save", "read") EXCEPT !.at["save"] = "saving"])

\* saveToPersistentStorage returns.
SaveEnd ==
    /\ lb.at["save"] = "saving"
    /\ LockStep([endAccess(lb, "save") EXCEPT !.at["save"] = "idle", !.pending = @ - 1])

NextLock ==
    \/ \E g \in Handlers : \E k \in {"add"} \cup Readers : \E e \in LockEntries :
          StartRequest(g, k, e)
    \/ \E g \in Handlers : Lock(g)
    \/ \E g \in Handlers : AppendBegin(g)
    \/ \E g \in Handlers : AppendEnd(g)
    \/ \E g \in Handlers : Go(g)
    \/ \E g \in Handlers : Unlock(g)
    \/ \E g \in Handlers : RLock(g)
    \/ \E g \in Handlers : SortBegin(g)
    \/ \E g \in Handlers : SortEnd(g)
    \/ \E g \in Handlers : ReadBegin(g)
    \/ \E g \in Handlers : ReadEnd(g)
    \/ \E g \in Handlers : RUnlock(g)
    \/ SaveBegin
    \/ SaveEnd

SpecLock == InitLock /\ [][NextLock]_vars

(***************************************************************************)
(* What the properties below are stated with: the board read line by line  *)
(* from the edge the tiles move toward, and a move described on one line.  *)
(***************************************************************************)
\* Line k of the board as the sequence of its cells, the first one at the edge
\* a move in direction d slides the tiles toward: rows for left and right,
\* columns for up and down.
LineToward(board, d, k) ==
    [j \in 1 .. N |->
        CASE d = "left"  -> board[k][j - 1]
          [] d = "right" -> board[k][N - j]
          [] d = "up"    -> board[j - 1][k]
          [] d = "down"  -> board[N - j][k]]

IsTile(v) == v # 0

\* The tiles of a line, in order.
Tiles(line) == SelectSeq(line, IsTile)

Zeros(n) == [j \in 1 .. n |-> 0]

\* One pass from the edge: two equal neighbours become one tile of double
\* value, and the pass goes on behind them.
RECURSIVE MergedOnce(_)
MergedOnce(s) ==
    IF Len(s) < 2 THEN s
    ELSE IF s[1] = s[2]
         THEN <<2 * s[1]>> \o MergedOnce(SubSeq(s, 3, Len(s)))
         ELSE <<s[1]>> \o MergedOnce(Tail(s))

\* Every way of cutting s into single tiles and pairs of equal neighbours, each
\* pair replaced by one tile of double value: the lines in which every tile
\* took part in at most one merge.
RECURSIVE Pairings(_)
Pairings(s) ==
    IF Len(s) = 0 THEN { << >> }
    ELSE {<<s[1]>> \o x : x \in Pairings(Tail(s))}
         \cup (IF Len(s) >= 2 /\ s[1] = s[2]
               THEN {<<2 * s[1]>> \o x : x \in Pairings(SubSeq(s, 3, Len(s)))}
               ELSE {})

Cells == Idx \X Idx

\* How many cells of the board hold v.
CountOf(board, v) == Cardinality({p \in Cells : board[p[1]][p[2]] = v})

RECURSIVE SumFrom(_, _)
SumFrom(board, k) ==
    IF k = N * N THEN 0 ELSE board[k \div N][k % N] + SumFrom(board, k + 1)

\* The sum of all tile values on the board.
BoardSum(board) == SumFrom(board, 0)

\* How many merges of two tiles v lead from board b0 to board b1, read off the
\* tile counts: the tiles v are those of b0, plus one per merge of two v/2,
\* minus two per merge of two v.
RECURSIVE MergesOf(_, _, _)
MergesOf(b0, b1, v) ==
    IF v < 2 THEN 0
    ELSE (CountOf(b0, v) + MergesOf(b0, b1, v \div 2) - CountOf(b1, v)) \div 2

\* The sum of the values of the tiles the merges from b0 to b1 created.
RECURSIVE CreatedFrom(_, _, _)
CreatedFrom(b0, b1, v) ==
    IF v > BoardSum(b0) THEN 0
    ELSE 2 * v * MergesOf(b0, b1, v) + CreatedFrom(b0, b1, 2 * v)

CreatedValue(b0, b1) == CreatedFrom(b0, b1, 2)

\* No empty cell and no two equal neighbours, in a row or in a column.
Dead(board) ==
    /\ \A p \in Cells : board[p[1]][p[2]] # 0
    /\ \A p \in Cells : \A q \in Cells :
          (p[1] = q[1] /\ q[2] = p[2] + 1) \/ (p[2] = q[2] /\ q[1] = p[1] + 1)
              => board[p[1]][p[2]] # board[q[1]][q[2]]

JustMoved == op = "applyMove"

(***************************************************************************)
(* The properties of the engine, checked under SpecEngine.                 *)
(***************************************************************************)
\* C1: a move left turns every row into its tiles in their order, equal
\* neighbours merged in one pass from the left into one tile of double value,
\* padded on the right with zeros to length 4.
C1_LeftCompactsRows ==
    (JustMoved /\ dir = "left") =>
        \A r \in Idx :
            LET after == MergedOnce(Tiles(LineToward(pre.board, "left", r)))
            IN  LineToward(game.board, "left", r) = after \o Zeros(N - Len(after))

C1_Witness ==
    /\ JustMoved /\ dir = "left"
    /\ \E r \in Idx :
          /\ LineToward(pre.board, "left", r) = <<2, 2, 2, 2>>
          /\ LineToward(game.board, "left", r) = <<4, 4, 0, 0>>
    /\ \E r \in Idx :
          /\ LineToward(pre.board, "left", r) = <<0, 2, 0, 2>>
          /\ LineToward(game.board, "left", r) = <<4, 0, 0, 0>>

\* C2: in one applyMove every tile takes part in at most one merge, in every
\* direction: each line after the move is its line before cut into single
\* tiles and pairs of equal neighbours; of exactly three equal neighbours the
\* two nearest the edge moved toward merge and the third stays; and v, v, 2v
\* gives 2v, 2v.
C2_OneMergePerTile ==
    JustMoved =>
        \A k \in Idx :
            LET s == Tiles(LineToward(pre.board, dir, k))
                t == Tiles(LineToward(game.board, dir, k))
            IN  /\ t \in Pairings(s)
                /\ \A i \in 1 .. Len(s) - 2 :
                      ( /\ s[i] = s[i + 1] /\ s[i + 1] = s[i + 2]
                        /\ (i = 1 \/ s[i - 1] # s[i])
                        /\ (i + 3 > Len(s) \/ s[i + 3] # s[i]) )
                      => (Len(t) > i /\ t[i] = 2 * s[i] /\ t[i + 1] = s[i])
                /\ (Len(s) = 3 /\ s[1] = s[2] /\ s[3] = 2 * s[1])
                      => t = <<2 * s[1], 2 * s[1]>>

C2_Witness ==
    /\ JustMoved /\ dir = "left"
    /\ game.score = pre.score + 4
    /\ \E r \in Idx :
          /\ LineToward(pre.board, "left", r) = <<2, 2, 2, 0>>
          /\ LineToward(game.board, "left", r) = <<4, 2, 0, 0>>

\* C3: applyMove returns true exactly when the board after the call differs
\* from the board before it.
C3_MovedIffBoardChanged ==
    JustMoved => (ret <=> game.board # pre.board)

C3_Witness ==
    /\ JustMoved /\ dir = "up"
    /\ ret
    /\ game.board # pre.board
    /\ game.score = pre.score

\* C4: applyMove adds to the score the values of the tiles its merges created
\* (2v for each merge of two tiles v) and nothing else.
C4_ScoreGainIsCreatedValue ==
    JustMoved => game.score = pre.score + CreatedValue(pre.board, game.board)

C4_Witness ==
    /\ JustMoved
    /\ pre.score > 0
    /\ game.score = pre.score + 12
    /\ CountOf(game.board, 8) = CountOf(pre.board, 8) + 1
    /\ CountOf(game.board, 4) = CountOf(pre.board, 4) - 1

\* C5: applyMove leaves the sum of all tile values on the board unchanged.
C5_SumConserved ==
    JustMoved => BoardSum(game.board) = BoardSum(pre.board)

C5_Witness ==
    /\ JustMoved /\ dir = "down"
    /\ game.score > pre.score
    /\ BoardSum(pre.board) > 0
    /\ BoardSum(game.board) = BoardSum(pre.board)

\* Two applyMove calls in a row, in the same direction, the second on the
\* output of the first.
MovedTwice == JustMoved /\ prev.op = "applyMove" /\ prev.dir = dir

\* C6 as stated: the second of two applyMove calls in the same direction, with
\* no spawn in between, returns moved = false.
C6_SecondCallNeverMoves ==
    MovedTwice => ~ret

\* C6 as amended: when the first of the two calls merged no tiles (it left the
\* score as it was), the second returns moved = false.
C6_SecondCallAfterSlideNeverMoves ==
    (MovedTwice /\ pre.score = prev.score) => ~ret

C6_Witness ==
    /\ MovedTwice /\ dir = "right"
    /\ prev.ret
    /\ pre.score = prev.score
    /\ ~ret
    /\ game.board = pre.board

\* C7: canMove returns false exactly when the board has no empty cell and no
\* two equal neighbours in a row or a column.
C7_CanMoveIffNotDead ==
    op = "canMove" => (~ret <=> Dead(pre.board))

C7_Witness ==
    /\ op = "canMove"
    /\ ~ret
    /\ Dead(pre.board)
    /\ pre.board # DeadBase

\* Some direction makes applyMove return moved = true on the game.
SomeDirectionMoves(g) == \E d \in Dirs : applyMove(g, d).moved

\* C8 as stated: canMove returns true exactly when at least one of the four
\* directions makes applyMove return moved = true.
C8_CanMoveIffSomeMove ==
    op = "canMove" => (ret <=> SomeDirectionMoves(pre))

\* C8 as amended: the same on every board that holds at least one tile.
C8_CanMoveIffSomeMoveWithTiles ==
    (op = "canMove" /\ pre.board # EmptyBoard) => (ret <=> SomeDirectionMoves(pre))

C8_Witness ==
    /\ op = "canMove"
    /\ pre.board # EmptyBoard
    /\ ~ret
    /\ ~SomeDirectionMoves(pre)

(***************************************************************************)
(* The properties of the move requests.                                    *)
(***************************************************************************)
\* C9: once a stored game has gameOver = true, its stored state never changes
\* again, and a move request that loads it is answered with an error, no move
\* applied.
C9_GameOverIsTerminal ==
    [][\A id \in DOMAIN store :
          store[id].gameOver =>
              /\ id \in DOMAIN store'
              /\ store'[id] = store[id]
              /\ (calls' # calls /\ op' = "move" /\ pre'.id = id)
                    => (status' = 400 /\ ~ret' /\ game' = store[id])]_vars

\* C10: after a move request whose applyMove returned true, the game has
\* gameOver = true exactly when its board, after the spawn, has no empty cell
\* and no two equal neighbours; that game is what a successful request stored.
C10_GameOverIffDeadAfterSpawn ==
    (op = "move" /\ ret) =>
        /\ game.gameOver <=> Dead(game.board)
        /\ status = 200 => store[game.id] = game

C10_Witness ==
    /\ op = "move" /\ ret /\ status = 200
    /\ ~pre.gameOver
    /\ game.gameOver
    /\ Dead(game.board)
    /\ CountOf(game.board, 0) = 0
    /\ store[game.id].gameOver

\* C11: won is a one-way flag.  A new game has won = false; a stored game
\* whose board holds the winning tile has won = true (it was set by the request
\* that made the tile); a request turns won from false to true only when it
\* leaves the winning tile on the board; and a stored game that had won = true
\* before a request has won = true after it, winning tile or not.
C11_WonIsOneWay ==
    /\ op = "newGame" => ~game.won
    /\ \A id \in DOMAIN store :
          /\ CountOf(store[id].board, WinTile) > 0 => store[id].won
          /\ id \in DOMAIN before =>
                /\ before[id].won => store[id].won
                /\ (store[id].won /\ ~before[id].won)
                      => CountOf(store[id].board, WinTile) > 0

\* What a move request did, won left out: the board, score and gameOver of the
\* handler's game and of the stored game, moved, and the status.
Processed(table, id, d) ==
    {[board |-> o.game.board, score |-> o.game.score, gameOver |-> o.game.gameOver,
      moved |-> o.ret, status |-> o.status,
      storedBoard |-> o.table[id].board, storedScore |-> o.table[id].score,
      storedOver |-> o.table[id].gameOver] : o \in moveHandler(table, id, d)}

\* C12: won does not end the game.  A move request in a valid direction that
\* loaded a game with won = true and gameOver = false was not turned away, and
\* what it did (board, score, gameOver, moved, status, stored game) is one of
\* the outcomes, and the set of its outcomes is exactly the set of outcomes,
\* of the same request on the same game with won = false.
C12_WonDoesNotEndGame ==
    (op = "move" /\ rid \in DOMAIN before /\ pre = before[rid]
        /\ pre.won /\ ~pre.gameOver) =>
      /\ status # 400
      /\ [board |-> game.board, score |-> game.score, gameOver |-> game.gameOver,
          moved |-> ret, status |-> status,
          storedBoard |-> store[rid].board, storedScore |-> store[rid].score,
          storedOver |-> store[rid].gameOver]
            \in Processed([before EXCEPT ![rid].won = FALSE], rid, dir)
      /\ Processed(before, rid, dir)
            = Processed([before EXCEPT ![rid].won = FALSE], rid, dir)

C12_Witness ==
    /\ op = "move" /\ rid \in DOMAIN before /\ pre = before[rid]
    /\ pre.won /\ ~pre.gameOver
    /\ ret /\ status = 200
    /\ game.score > pre.score
    /\ store[rid] = game
    /\ game.won /\ ~game.gameOver

\* A power of two that is at least 2.
RECURSIVE IsPowerOfTwo(_)
IsPowerOfTwo(v) == v = 2 \/ (v > 2 /\ v % 2 = 0 /\ IsPowerOfTwo(v \div 2))

CellsWellFormed(board) ==
    \A p \in Cells : board[p[1]][p[2]] = 0 \/ IsPowerOfTwo(board[p[1]][p[2]])

\* C13: in every state reached from a new game by move requests, every cell of
\* the handler's game and of every stored game is 0 or a power of two that is
\* at least 2.
C13_CellsArePowersOfTwo ==
    /\ CellsWellFormed(game.board)
    /\ \A id \in DOMAIN store : CellsWellFormed(store[id].board)

C13_Witness ==
    /\ op = "move" /\ prev.op = "newGame"
    /\ ret /\ status = 200
    /\ store[rid] = game
    /\ CountOf(before[rid].board, 4) = 2
    /\ CountOf(game.board, 8) = 1
    /\ CountOf(game.board, 0) = N * N - 2

\* C14: with the move requests on a game served one at a time, the stored
\* score is never negative, and after a request it is at least what it was
\* before the request.
C14_ScoreNeverDecreases ==
    \A id \in DOMAIN store :
        /\ store[id].score >= 0
        /\ id \in DOMAIN before => store[id].score >= before[id].score

C14_Witness ==
    /\ op = "move" /\ prev.op = "move" /\ prev.ret
    /\ ret /\ status = 200
    /\ before[rid].score > prev.score
    /\ store[rid].score > before[rid].score

\* C15: the game a successful new-game request returns has exactly two
\* non-zero cells, each 2 or 4, score 0, gameOver = false and won = false.
C15_NewGameHasTwoTiles ==
    (op = "newGame" /\ status = 200) =>
        /\ CountOf(game.board, 0) = N * N - 2
        /\ CountOf(game.board, 2) + CountOf(game.board, 4) = 2
        /\ game.score = 0
        /\ ~game.gameOver
        /\ ~game.won

C15_Witness ==
    /\ op = "newGame" /\ status = 200
    /\ CountOf(game.board, 2) = 1
    /\ CountOf(game.board, 4) = 1
    /\ store[rid] = game

\* A move request that called applyMove and got false: the game was loaded,
\* was not over, and nothing moved.
MoveReturnedFalse ==
    /\ op = "move"
    /\ rid \in DOMAIN before /\ pre = before[rid]
    /\ ~pre.gameOver
    /\ ~ret

\* C16: when applyMove returns false the move request changes nothing: the
\* handler's game is the game it loaded (board with no new tile, score,
\* gameOver, won) and the sessions table is as the request found it.
C16_NoMoveChangesNothing ==
    MoveReturnedFalse =>
        /\ game = pre
        /\ CountOf(game.board, 0) = CountOf(pre.board, 0)
        /\ store = before

C16_Witness ==
    /\ MoveReturnedFalse
    /\ status = 200
    /\ CountOf(pre.board, 0) > 0
    /\ game.board = pre.board
    /\ store[rid] = pre

(***************************************************************************)
(* The properties of spawnTile.                                            *)
(***************************************************************************)
\* The board is the board from with one tile, 2 or 4, put in a cell that was
\* empty, and every other cell as it was.
OneTileAdded(from, board) ==
    \E p \in Cells :
        /\ from[p[1]][p[2]] = 0
        /\ board[p[1]][p[2]] \in {2, 4}
        /\ board = [from EXCEPT ![p[1]][p[2]] = board[p[1]][p[2]]]

\* C17: spawnTile on a board with no empty cell changes nothing; on a board
\* with an empty cell it sets exactly one cell that was empty to 2 or 4 and
\* leaves every other cell, the score, gameOver and won as they were.
C17_SpawnFillsOneEmptyCell ==
    op = "spawnTile" =>
        IF CountOf(pre.board, 0) = 0
        THEN game = pre
        ELSE /\ OneTileAdded(pre.board, game.board)
             /\ CountOf(game.board, 0) = CountOf(pre.board, 0) - 1
             /\ game = [pre EXCEPT !.board = game.board]

C17_Witness ==
    /\ op = "spawnTile" /\ prev.op = "spawnTile"
    /\ CountOf(pre.board, 0) > 1
    /\ CountOf(game.board, 4) = CountOf(pre.board, 4) + 1
    /\ pre.score > 0
    /\ game.score = pre.score

\* C18: after a move request whose applyMove returned true, the handler's
\* board is the board applyMove left with exactly one tile, 2 or 4, added in a
\* cell that was empty: the board applyMove left had an empty cell.
C18_MoveSpawnsOneTile ==
    (op = "move" /\ ret) =>
        /\ CountOf(applyMove(pre, dir).game.board, 0) > 0
        /\ OneTileAdded(applyMove(pre, dir).game.board, game.board)

C18_Witness ==
    /\ op = "move" /\ ret /\ status = 200
    /\ CountOf(pre.board, 0) = 0
    /\ CountOf(game.board, 0) = 0
    /\ store[rid] = game

(***************************************************************************)
(* The properties of the validation and of the save.                       *)
(***************************************************************************)
\* A move request that passed validation: its direction is valid, the game
\* was loaded, and the game was not over.
Validated ==
    /\ op = "move"
    /\ dir \in validDirections
    /\ rid \in DOMAIN before /\ pre = before[rid]
    /\ ~pre.gameOver

\* C19, as claimed: every move request that passed validation and was answered
\* 200 called saveGameSession, whether or not the board changed.
C19_AlwaysPersists ==
    (Validated /\ status = 200) => saved

\* C19, amended: a move request that passed validation calls saveGameSession
\* exactly when applyMove returned true; it is then answered 200 with the
\* stored game equal to the game of the response, or 500 with the table as it
\* was.  When applyMove returned false nothing is saved, the answer is 200 and
\* the stored game, left alone, is the game of the response.
C19_PersistsWhenMoved ==
    Validated =>
        /\ saved <=> ret
        /\ status \in {200, 500}
        /\ status = 200 => store[rid] = game
        /\ status = 500 => (saved /\ store = before)
        /\ ~saved => (status = 200 /\ store = before)

C19_Witness ==
    /\ Validated
    /\ ret /\ saved /\ status = 200
    /\ store[rid] = game
    /\ store # before
    /\ prev.op = "move" /\ ~prev.ret

\* C20: a move request whose direction is not one of "up", "down", "left",
\* "right", or whose id is not in the sessions table, is answered with an
\* error (400 for the direction, else 404) with no game loaded, no applyMove
\* and no save, and leaves the sessions table as it was.
C20_BadRequestsRejected ==
    (op = "move" /\ (dir \notin validDirections \/ rid \notin DOMAIN before)) =>
        /\ status = IF dir \notin validDirections THEN 400 ELSE 404
        /\ ~ret
        /\ ~saved
        /\ game = NoGame /\ pre = NoGame
        /\ store = before

C20_Witness ==
    /\ op = "move" /\ dir \in validDirections
    /\ rid \notin DOMAIN before /\ DOMAIN before # {}
    /\ status = 404
    /\ store = before
    /\ prev.op = "move" /\ prev.dir = "Left" /\ ~prev.ret

(***************************************************************************)
(* The properties of concurrent move requests.                             *)
(***************************************************************************)
\* The table after a save is what the saving request leaves when it is served
\* alone on the table as it was just before the save.
SerialOutcome ==
    IF rejects(before[rid]) THEN store = before
    ELSE \E o \in moveSaved(before, before[rid], dir) : o.table = store

\* C21: move requests for one game are serialized.  No handler saves a result
\* it computed from a copy of the game that another handler has replaced in
\* the table since (the game a saving handler loaded is the game the table
\* holds when it saves), and so the stored state is the result of the requests
\* applied one after the other.
C21_NoLostUpdate ==
    (op = "move" /\ saved /\ status = 200 /\ rid \in DOMAIN before) =>
        /\ pre = before[rid]
        /\ SerialOutcome

(***************************************************************************)
(* The properties of the game ids.                                         *)
(***************************************************************************)
\* C22: game ids are unique.  The id of a new game is the id of no game
\* created before it, so that saving it replaces no stored session, and a
\* stored session carries the id it is stored under.
C22_IdsAreUnique ==
    /\ (op = "newGame" /\ status = 200) =>
          /\ rid \notin DOMAIN before
          /\ \A id \in DOMAIN before : store[id] = before[id]
    /\ \A id \in DOMAIN store : store[id].id = id

(***************************************************************************)
(* The properties of the leaderboard.                                      *)
(***************************************************************************)
\* The entries agree on what a submission carries.
SameSubmission(a, b) ==
    /\ a.playerId = b.playerId
    /\ a.name = b.name
    /\ a.score = b.score
    /\ a.duration = b.duration
    /\ a.moves = b.moves

\* C23: the leaderboard is persistent.  After the process has restarted and
\* loaded the leaderboard from its storage, every entry the leaderboard held
\* before is in it, with the same player id, name, score, duration and moves.
C23_LeaderboardSurvivesRestart ==
    op = "restart" =>
        \A i \in 1 .. Len(lb.prior) :
            \E j \in 1 .. Len(lb.entries) : SameSubmission(lb.entries[j], lb.prior[i])

\* How many times the sequence q holds e.
Copies(q, e) == Cardinality({i \in DOMAIN q : q[i] = e})

\* The sequence kept holds the n highest-ranked entries of the sequence all:
\* n of them (all of them if there are fewer), each no more often than all
\* holds it, and no entry of all that it lacks ranked above one it holds.
HighestOf(kept, all, n) ==
    /\ Len(kept) = IF n > Len(all) THEN Len(all) ELSE n
    /\ \A i \in DOMAIN kept : Copies(kept, kept[i]) <= Copies(all, kept[i])
    /\ \A i \in DOMAIN all :
          Copies(kept, all[i]) < Copies(all, all[i]) =>
              \A j \in DOMAIN kept : ~less(all[i], kept[j])

\* The limit GetTopScores was called with for the last leaderboard response.
AskedLimit == IF lb.limit > 0 THEN lb.limit ELSE DefaultLimit

\* C24: GetTopScores(limit), limit > 0, returns min(limit, number of entries)
\* entries; they are ordered by score descending, equal scores by earlier
\* timestamp first; and they are the highest-ranked entries: no entry that is
\* left out ranks above one that is returned.
C24_TopScoresAreTheHighest ==
    op = "top" =>
        /\ HighestOf(lb.top, lb.prior, AskedLimit)
        /\ \A i \in 1 .. Len(lb.top) : \A j \in 1 .. Len(lb.top) :
              i < j => \/ lb.top[i].score > lb.top[j].score
                       \/ /\ lb.top[i].score = lb.top[j].score
                          /\ lb.top[i].timestamp <= lb.top[j].timestamp

C24_Witness ==
    /\ op = "top"
    /\ Len(lb.prior) = 2 /\ Len(lb.top) = 1
    /\ lb.prior[1].score < lb.prior[2].score
    /\ lb.top[1] = lb.prior[2]

\* C25: a successful score submission responds with the entry carrying the
\* generated id: the id of the entry in the response is not empty and is the
\* id of the entry AddScore stored.
C25_ResponseCarriesId ==
    (op = "submit" /\ status = 200) =>
        /\ lb.resp.id # << >>
        /\ lb.resp.id = lb.added.id

\* C28: the leaderboard never holds more than 1000 (here MaxEntries) entries,
\* and the entries it holds are the highest-ranked of all the entries AddScore
\* ever appended: no entry that was dropped ranks above one that is held.
C28_KeepsTheHighest ==
    /\ Len(lb.entries) <= MaxEntries
    /\ HighestOf(lb.entries, lb.ever, MaxEntries)

C28_Witness ==
    /\ op = "submit" /\ status = 200
    /\ Len(lb.prior) = MaxEntries /\ Len(lb.entries) = MaxEntries
    /\ Len(lb.ever) = MaxEntries + 1
    /\ \A i \in 1 .. Len(lb.entries) : lb.entries[i] # lb.prior[MaxEntries]
    /\ \E i \in 1 .. Len(lb.entries) : lb.entries[i] = lb.added

(***************************************************************************)
(* The four directions of applyMove, checked under SpecEngine.             *)
(***************************************************************************)
\* The board with every row read from its right end.
Mirror(board) == [r \in Idx |-> [c \in Idx |-> board[r][(N - 1) - c]]]

\* The board with rows and columns exchanged.
Transpose(board) == [r \in Idx |-> [c \in Idx |-> board[c][r]]]

\* The move in direction d by way of a move left or right on the mirrored or
\* transposed board.
MoveByReflection(g, d) ==
    CASE d = "right" ->
            LET out == applyMove([g EXCEPT !.board = Mirror(g.board)], "left")
            IN  [out EXCEPT !.game.board = Mirror(@)]
      [] d = "up" ->
            LET out == applyMove([g EXCEPT !.board = Transpose(g.board)], "left")
            IN  [out EXCEPT !.game.board = Transpose(@)]
      [] d = "down" ->
            LET out == applyMove([g EXCEPT !.board = Transpose(g.board)], "right")
            IN  [out EXCEPT !.game.board = Transpose(@)]
      [] OTHER -> applyMove(g, d)

\* No empty cell of the line lies between the edge and a tile.
Packed(line) == \A j \in 1 .. (N - 1) : line[j] = 0 => line[j + 1] = 0

\* C26: applyMove treats the four directions alike: a move right is a move
\* left on the mirrored board mirrored back, a move up a move left on the
\* transposed board transposed back, a move down a move right on the
\* transposed board transposed back, with the same board, the same returned
\* value and the same score; and the tiles end packed against the edge of the
\* direction.
C26_DirectionsAreSymmetric ==
    JustMoved =>
        /\ game = MoveByReflection(pre, dir).game
        /\ ret = MoveByReflection(pre, dir).moved
        /\ \A k \in Idx : Packed(LineToward(game.board, dir, k))

C26_Witness ==
    /\ JustMoved /\ dir = "up"
    /\ ret
    /\ game.score > pre.score
    /\ pre.board # Transpose(pre.board)
    /\ game.board # applyMove(pre, "down").game.board
    /\ game.board # applyMove(pre, "left").game.board

(***************************************************************************)
(* The rotations, checked under SpecRotate.                                *)
(***************************************************************************)
\* C27: the rotations undo each other: after rotateLeft, rotateRight gives
\* back the board, and so do three more rotateLeft; after rotateRight,
\* rotateLeft gives back the board, and so do three more rotateRight; after
\* rotate180, a second rotate180 gives back the board.
C27_RotationsRoundTrip ==
    /\ op = "rotateLeft" =>
          /\ rotateRight(game.board) = pre.board
          /\ rotateLeft(rotateLeft(rotateLeft(game.board))) = pre.board
    /\ op = "rotateRight" =>
          /\ rotateLeft(game.board) = pre.board
          /\ rotateRight(rotateRight(rotateRight(game.board))) = pre.board
    /\ op = "rotate180" => rotate180(game.board) = pre.board

C27_Witness ==
    /\ op = "rotateRight"
    /\ game.board # pre.board
    /\ pre.board # rotate180(pre.board)
    /\ game.board # Transpose(pre.board)
    /\ rotateLeft(game.board) = pre.board

(***************************************************************************)
(* The end of a game, checked under Spec.                                  *)
(***************************************************************************)
\* C29: a game is never stuck without being declared over.  With the move
\* requests served one at a time, every stored game, and the game of every
\* successful response, has gameOver = false exactly when a move in one of
\* the four directions would change its board.
C29_NeverStuck ==
    /\ \A id \in DOMAIN store : (~store[id].gameOver) <=> SomeDirectionMoves(store[id])
    /\ (op = "move" /\ status = 200) => ((~game.gameOver) <=> SomeDirectionMoves(game))

C29_Witness ==
    /\ op = "move" /\ status = 200 /\ ret
    /\ ~before[rid].gameOver
    /\ SomeDirectionMoves(before[rid])
    /\ store[rid].gameOver
    /\ ~SomeDirectionMoves(store[rid])

(***************************************************************************)
(* The locking of the leaderboard, checked under SpecLock.                 *)
(***************************************************************************)
\* C30: every write of l.entries is made by the goroutine that holds l.mu
\* locked, every read by a goroutine that holds it locked or read-locked, and
\* no goroutine reads or writes l.entries while another one writes it.
C30_LockDiscipline ==
    /\ \A g \in Goroutines : lb.acc[g] = "write" => lb.writer = g
    /\ \A g \in Goroutines : lb.acc[g] = "read" => (lb.writer = g \/ g \in lb.readers)
    /\ \A g \in Goroutines : \A h \in Goroutines \ {g} :
          lb.acc[g] = "write" => lb.acc[h] = "none"

(***************************************************************************)
(* The end of every game, checked under SpecEnd.                           *)
(***************************************************************************)
\* C31: every game ends.  A game has only finitely many move requests that
\* change its board: each of them adds the value of the tile it spawns to the
\* sum of the board, and from some request on the stored game changes no
\* more.
C31_EveryGameEnds ==
    /\ [][store' # store => BoardSum(store'[rid'].board) > BoardSum(store[rid'].board)]_vars
    /\ <>[][store' = store]_vars
    /\ [](\A id \in DOMAIN store : ~SomeDirectionMoves(store[id]) => store[id].gameOver)

C31_Witness ==
    /\ op = "move" /\ ret /\ status = 200
    /\ ~before[rid].gameOver
    /\ store[rid].gameOver
    /\ CountOf(store[rid].board, 0) = 0
    /\ CountOf(store[rid].board, 8) = 1

(***************************************************************************)
(* A save that fails, checked under SpecNew.                               *)
(***************************************************************************)
\* C32: when persisting fails nothing is half-done.  A request that called
\* saveGameSession either answers 200 and the table holds the game of the
\* response, or answers 500 and the table is as it was before the request: a
\* move request then leaves the game as it loaded it, and a new-game request
\* leaves no game under the id it generated.
C32_FailedSaveStoresNothing ==
    (op \in {"move", "newGame"} /\ saved) =>
        /\ \/ status = 200 /\ store = putItem(before, game)
           \/ status = 500 /\ store = before
        /\ (op = "move" /\ status = 500) => store[rid] = pre
        /\ (op = "newGame" /\ status = 500) => rid \notin DOMAIN store

C32_Witness ==
    /\ op = "move" /\ saved /\ status = 500
    /\ ret
    /\ game.board # pre.board
    /\ store[rid] = pre
    /\ prev.op = "newGame"

(***************************************************************************)
(* What the engine calls leave alone, checked under SpecFrame.             *)
(***************************************************************************)
\* C33: applyMove changes only the board and the score of the game it is
\* given (id, createdAt, gameOver and won stay as they were), canMove changes
\* nothing, and checkWin changes nothing but won; no call touches the
\* sessions table.
C33_EngineFrame ==
    /\ op = "applyMove" => game = [pre EXCEPT !.board = game.board, !.score = game.score]
    /\ op = "canMove" => game = pre
    /\ op = "checkWin" => game = [pre EXCEPT !.won = game.won]
    /\ store = before

C33_Witness ==
    /\ op = "applyMove" /\ ret
    /\ pre.won /\ game.won
    /\ game.board # pre.board
    /\ game.score > pre.score
    /\ game.id = pre.id /\ game.id # << >>

====
